---------------------------- MODULE Spec2Model ----------------------------
(***************************************************************************)
(* Rent-to-SA profitability API (src/main.py).                             *)
(*                                                                         *)
(* Strings are sequences of one-character strings.  The pound sign is the  *)
(* single character "GBP".  Only ASCII letters, digits and punctuation     *)
(* occur, so str.upper(), str.lower() and the regular expressions behave   *)
(* as on ASCII text.                                                       *)
(*                                                                         *)
(* A Python float holding a parsed rent is modelled by the decimal value   *)
(* it was parsed from, a record [n, d] meaning n / d with d a power of     *)
(* ten.  Binary rounding error is many orders of magnitude below half a    *)
(* penny for the magnitudes modelled, so round(x, 2) is the nearest penny  *)
(* of the decimal value, except on an exact half-penny tie, where the      *)
(* direction depends on the binary representation.  The inputs drawn below *)
(* contain no digit 5 in a price, so no such tie arises (NoHalfPennyTie).  *)
(* The product base_rate * multiplier is modelled bit-exactly (RoundMul).  *)
(***************************************************************************)
EXTENDS Integers, Sequences, FiniteSets, TLC

(***************************************************************************)
(* Bounds                                                                  *)
(***************************************************************************)
NumReq == 2          \* requests handled concurrently (SpecConcurrent)
MaxPriceLen == 3     \* longest enumerated price string
MaxAddrTokens == 2   \* longest enumerated address, in tokens
MaxBedrooms == 7     \* bedrooms drawn from -2 .. MaxBedrooms

(***************************************************************************)
(* Characters and strings                                                  *)
(***************************************************************************)
ascii_lowercase == <<"a","b","c","d","e","f","g","h","i","j","k","l","m","n","o","p","q","r","s","t","u","v","w","x","y","z">>
ascii_uppercase == <<"A","B","C","D","E","F","G","H","I","J","K","L","M","N","O","P","Q","R","S","T","U","V","W","X","Y","Z">>
digits == <<"0","1","2","3","4","5","6","7","8","9">>

Range(s) == {s[i] : i \in 1..Len(s)}
IndexIn(c, s) == CHOOSE i \in 1..Len(s) : s[i] = c

IsDigit(c) == c \in Range(digits)
IsAlpha(c) == c \in Range(ascii_lowercase) \cup Range(ascii_uppercase)
IsSpace(c) == c = " "

char_upper(c) == IF c \in Range(ascii_lowercase) THEN ascii_uppercase[IndexIn(c, ascii_lowercase)] ELSE c
char_lower(c) == IF c \in Range(ascii_uppercase) THEN ascii_lowercase[IndexIn(c, ascii_uppercase)] ELSE c

\* str.upper(), str.lower()
str_upper(s) == [i \in 1..Len(s) |-> char_upper(s[i])]
str_lower(s) == [i \in 1..Len(s) |-> char_lower(s[i])]

\* str.strip(): drop leading and trailing whitespace
RECURSIVE lstrip(_)
lstrip(s) == IF s # <<>> /\ IsSpace(Head(s)) THEN lstrip(Tail(s)) ELSE s
RECURSIVE rstrip(_)
rstrip(s) == IF s # <<>> /\ IsSpace(s[Len(s)]) THEN rstrip(SubSeq(s, 1, Len(s) - 1)) ELSE s
str_strip(s) == rstrip(lstrip(s))

\* `sub in s`
Contains(s, sub) ==
    \E i \in 1..(Len(s) - Len(sub) + 1) : SubSeq(s, i, i + Len(sub) - 1) = sub

DigitVal(c) == IndexIn(c, digits) - 1

\* value of a non-empty string of decimal digits
RECURSIVE DigitsToInt(_)
DigitsToInt(s) == IF s = <<>> THEN 0 ELSE 10 * DigitsToInt(SubSeq(s, 1, Len(s) - 1)) + DigitVal(s[Len(s)])

\* str(n) for an integer n
RECURSIVE NatToStr(_)
NatToStr(n) == IF n < 10 THEN <<digits[n + 1]>> ELSE NatToStr(n \div 10) \o <<digits[(n % 10) + 1]>>
IntToStr(n) == IF n < 0 THEN <<"-">> \o NatToStr(0 - n) ELSE NatToStr(n)

RECURSIVE Pow10(_)
Pow10(k) == IF k = 0 THEN 1 ELSE 10 * Pow10(k - 1)

(***************************************************************************)
(* Decimal values                                                          *)
(***************************************************************************)
RECURSIVE Dec(_, _)
Dec(n, d) == IF d > 1 /\ n % 10 = 0 THEN Dec(n \div 10, d \div 10) ELSE [n |-> n, d |-> d]

\* results of calls: a returned value or a raised exception
Return(v) == [tag |-> "return", exc |-> "", msg |-> "", value |-> v]
Raise(e, m, v0) == [tag |-> "raise", exc |-> e, msg |-> m, value |-> v0]

(***************************************************************************)
(* Configuration tables (module globals)                                   *)
(***************************************************************************)
house == <<"h","o","u","s","e">>
apartment == <<"a","p","a","r","t","m","e","n","t">>
bungalow == <<"b","u","n","g","a","l","o","w">>
studio == <<"s","t","u","d","i","o">>

BedroomRates(r1, r2, r3, r4, r5) == (1 :> r1) @@ (2 :> r2) @@ (3 :> r3) @@ (4 :> r4) @@ (5 :> r5)

BASE_RATE_MAP ==
    (house :> BedroomRates(60, 85, 110, 140, 170)) @@
    (apartment :> BedroomRates(55, 75, 100, 125, 150)) @@
    (bungalow :> BedroomRates(50, 70, 95, 120, 145)) @@
    (studio :> BedroomRates(45, 65, 85, 105, 125))

\* Factors are held in tenths: 16 is the float 1.6.  The dict keeps
\* insertion order, so the table is a sequence.
CITY_MULTIPLIERS == <<
    [city |-> <<"L","O","N","D","O","N">>, factor |-> 16],
    [city |-> <<"M","A","N","C","H","E","S","T","E","R">>, factor |-> 13],
    [city |-> <<"L","I","V","E","R","P","O","O","L">>, factor |-> 12],
    [city |-> <<"B","I","R","M","I","N","G","H","A","M">>, factor |-> 12],
    [city |-> <<"L","E","E","D","S">>, factor |-> 11],
    [city |-> <<"G","L","A","S","G","O","W">>, factor |-> 11],
    [city |-> <<"E","D","I","N","B","U","R","G","H">>, factor |-> 13],
    [city |-> <<"B","R","I","S","T","O","L">>, factor |-> 12],
    [city |-> <<"C","A","R","D","I","F","F">>, factor |-> 11],
    [city |-> <<"S","H","E","F","F","I","E","L","D">>, factor |-> 10] >>

DEFAULT_MULTIPLIER == 10

LEGACY_NIGHTLY_RATE_MAP ==
    (<<"L","4","-","3">> :> 130) @@ (<<"L","4","-","4">> :> 160) @@
    (<<"L","5","-","3">> :> 130) @@ (<<"L","5","-","4">> :> 160) @@
    (<<"L","6","-","3">> :> 120) @@ (<<"L","6","-","4">> :> 150)

BILLS == 600

VARIABLES
    tables,     \* the three module-level dicts as they are at run time
    environ,    \* MAKE_WEBHOOK_URL: "unset" or "set"
    h,          \* per request slot: the handler's position and locals
    probe       \* the last direct call of a pure function (SpecPure)

vars == <<tables, environ, h, probe>>

InitTables == [base |-> BASE_RATE_MAP, city |-> CITY_MULTIPLIERS, legacy |-> LEGACY_NIGHTLY_RATE_MAP]


(***************************************************************************)
(* JSON values of the request payload.  t is the JSON/Python type:         *)
(* "absent" (key not in the object), "null", "str" (s: the characters),    *)
(* "int" (n), "bool" (n: 0 or 1), "float" (n: the value in tenths),        *)
(* "inf" (a float literal such as 1e999), "nan", "list" (n: its length).   *)
(***************************************************************************)
JAbsent == [t |-> "absent", s |-> <<>>, n |-> 0]
JNull == [t |-> "null", s |-> <<>>, n |-> 0]
JStr(s) == [t |-> "str", s |-> s, n |-> 0]
JInt(n) == [t |-> "int", s |-> <<>>, n |-> n]
JBool(b) == [t |-> "bool", s |-> <<>>, n |-> IF b THEN 1 ELSE 0]
JFloat(tenths) == [t |-> "float", s |-> <<>>, n |-> tenths]
JInf == [t |-> "inf", s |-> <<>>, n |-> 0]
JNaN == [t |-> "nan", s |-> <<>>, n |-> 0]
JList(len) == [t |-> "list", s |-> <<>>, n |-> len]

\* dict.get(key, default): an absent key gives the default
dict_get(v, default) == IF v.t = "absent" THEN default ELSE v

\* bool(v)
truthy(v) ==
    CASE v.t \in {"absent", "null"} -> FALSE
      [] v.t = "str" -> v.s # <<>>
      [] v.t \in {"int", "bool", "float", "list"} -> v.n # 0
      [] OTHER -> TRUE

isinstance_str(v) == v.t = "str"

\* int(str): optional surrounding whitespace, an optional sign, decimal digits
int_of_str(s) ==
    LET body == str_strip(s)
        signed == body # <<>> /\ Head(body) \in {"+", "-"}
        ds == IF signed THEN Tail(body) ELSE body
    IN  IF ds # <<>> /\ \A i \in 1..Len(ds) : IsDigit(ds[i])
        THEN Return(IF signed /\ Head(body) = "-" THEN 0 - DigitsToInt(ds) ELSE DigitsToInt(ds))
        ELSE Raise("ValueError", "invalid literal for int()", 0)

\* int(v) for a JSON value; a float truncates towards zero
py_int(v) ==
    CASE v.t \in {"int", "bool"} -> Return(v.n)
      [] v.t = "float" -> Return(IF v.n >= 0 THEN v.n \div 10 ELSE 0 - ((0 - v.n) \div 10))
      [] v.t = "str" -> int_of_str(v.s)
      [] v.t = "nan" -> Raise("ValueError", "cannot convert float NaN to integer", 0)
      [] v.t = "inf" -> Raise("OverflowError", "cannot convert float infinity to integer", 0)
      [] OTHER -> Raise("TypeError", "int() argument must be a string or a number", 0)

(***************************************************************************)
(* parse_rent                                                              *)
(***************************************************************************)
IsNumericChar(c) == IsDigit(c) \/ c = "."

\* re.sub(r"[^0-9.]+", "", s): every maximal run of other characters is deleted
RECURSIVE SkipRun(_)
SkipRun(s) == IF s # <<>> /\ ~IsNumericChar(Head(s)) THEN SkipRun(Tail(s)) ELSE s
RECURSIVE re_sub_non_numeric(_)
re_sub_non_numeric(s) ==
    IF s = <<>> THEN <<>>
    ELSE IF IsNumericChar(Head(s)) THEN <<Head(s)>> \o re_sub_non_numeric(Tail(s))
    ELSE re_sub_non_numeric(SkipRun(s))

\* float(s) for s over digits and ".": digits with at most one point
py_float(s) ==
    LET points == {i \in 1..Len(s) : s[i] = "."}
        point == CHOOSE i \in points : TRUE
        whole == IF points = {} THEN s ELSE SubSeq(s, 1, point - 1)
        frac == IF points = {} THEN <<>> ELSE SubSeq(s, point + 1, Len(s))
    IN  IF Cardinality(points) <= 1 /\ Len(s) > Cardinality(points)
        THEN Return(Dec(DigitsToInt(whole \o frac), Pow10(Len(frac))))
        ELSE Raise("ValueError", "could not convert string to float", Dec(0, 1))

parse_rent_strips_points(price_str) ==
    LET cleaned == SelectSeq(price_str, IsDigit)
    IN  IF cleaned = <<>>
        THEN Raise("ValueError", "Could not parse rent from price string", Dec(0, 1))
        ELSE Return(Dec(DigitsToInt(cleaned), 1))

parse_rent(price_str) ==
    LET cleaned == re_sub_non_numeric(price_str)
        rent_value == py_float(cleaned)
    IN  IF cleaned = <<>>
        THEN Raise("ValueError", "Could not parse rent from price string", Dec(0, 1))
        ELSE IF rent_value.tag = "return"
        THEN rent_value
        ELSE Raise("ValueError", "Invalid numeric value in price string", Dec(0, 1))

(***************************************************************************)
(* extract_prefix                                                          *)
(***************************************************************************)
Opt(v) == [some |-> TRUE, v |-> v]
None(v0) == [some |-> FALSE, v |-> v0]

\* re.match of [A-Za-z]{1,2}\d{1,2} at position i: the matched length, or 0.
\* Both quantifiers are greedy; two letters are tried before one.
MatchLenAt(s, i) ==
    LET at(j) == IF j <= Len(s) THEN s[j] ELSE ""
        letters == IF IsAlpha(at(i)) /\ IsAlpha(at(i + 1)) /\ IsDigit(at(i + 2)) THEN 2
                   ELSE IF IsAlpha(at(i)) /\ IsDigit(at(i + 1)) THEN 1
                   ELSE 0
        ndigits == IF IsDigit(at(i + letters + 1)) THEN 2 ELSE 1
    IN  IF letters = 0 THEN 0 ELSE letters + ndigits

\* re.search: the leftmost position with a match
extract_prefix(address) ==
    LET starts == {i \in 1..Len(address) : MatchLenAt(address, i) > 0}
        first == CHOOSE i \in starts : \A j \in starts : i <= j
    IN  IF starts = {} THEN None(<<>>)
        ELSE Opt(str_upper(SubSeq(address, first, first + MatchLenAt(address, first) - 1)))

(***************************************************************************)
(* fetch_average_nightly_rate                                              *)
(***************************************************************************)
ReturnNone == [tag |-> "none", exc |-> "", msg |-> "", value |-> 0]

SetMin(S) == CHOOSE m \in S : \A k \in S : m <= k
SetMax(S) == CHOOSE m \in S : \A k \in S : k <= m

\* sorted(keys)
RECURSIVE sorted(_)
sorted(S) == IF S = {} THEN <<>> ELSE <<SetMin(S)>> \o sorted(S \ {SetMin(S)})

base_rate_zero_when_missing(base_for_type, bedrooms) ==
    IF bedrooms \in DOMAIN base_for_type THEN base_for_type[bedrooms] ELSE 0

base_rate_highest_when_none_lower(base_for_type, bedrooms) ==
    LET lower_keys == {k \in DOMAIN base_for_type : k <= bedrooms}
    IN  base_for_type[SetMax(IF lower_keys # {} THEN lower_keys ELSE DOMAIN base_for_type)]

\* lines 116-124: exact key, else nearest lower key, else the first sorted key
base_rate_lookup(base_for_type, bedrooms) ==
    IF bedrooms \in DOMAIN base_for_type
    THEN base_for_type[bedrooms]
    ELSE LET sorted_keys == sorted(DOMAIN base_for_type)
             lower_keys == SelectSeq(sorted_keys, LAMBDA k : k <= bedrooms)
         IN  IF lower_keys # <<>>
             THEN base_for_type[SetMax(Range(lower_keys))]
             ELSE base_for_type[sorted_keys[1]]

RECURSIVE LastMatch(_, _, _, _)
LastMatch(table, upper_address, i, multiplier) ==
    IF i > Len(table) THEN multiplier
    ELSE LastMatch(table, upper_address, i + 1,
                   IF Contains(upper_address, table[i].city) THEN table[i].factor ELSE multiplier)

city_multiplier_without_break(address) == LastMatch(tables.city, str_upper(address), 1, DEFAULT_MULTIPLIER)

\* the for loop of lines 130-138, from table entry i on: the first key that
\* occurs in the uppercased address decides, and the loop breaks there
RECURSIVE FirstMatch(_, _, _)
FirstMatch(table, upper_address, i) ==
    IF i > Len(table) THEN DEFAULT_MULTIPLIER
    ELSE IF Contains(upper_address, table[i].city) THEN table[i].factor
    ELSE FirstMatch(table, upper_address, i + 1)

\* lines 128-138
city_multiplier(address) == FirstMatch(tables.city, str_upper(address), 1)

\* The double nearest to tenths/10, for 10 <= tenths <= 19, differs from it by
\* DoubleErr(tenths) / 10 units in the last place (2^-52): 2^52 mod 10 = 6.
DoubleErr(tenths) == LET r == (6 * tenths) % 10 IN IF r < 5 THEN 0 - r ELSE 10 - r

\* the largest power of two that is <= q, for q >= 1
RECURSIVE Binade(_)
Binade(q) == IF q < 2 THEN 1 ELSE 2 * Binade(q \div 2)

\* int(round(base_rate * multiplier)), line 139, for a multiplier in [1.0, 1.9]
\* held in tenths.  Off a tie the float product rounds like the exact one.  On
\* a tie q.5 the float product is q.5 exactly unless base_rate times the
\* multiplier's representation error exceeds half a unit in the last place of
\* q.5; round() then takes q.5 to the even neighbour.
RoundMul(base_rate, tenths) ==
    LET n == base_rate * tenths
        q == n \div 10
        r == n % 10
        err == base_rate * DoubleErr(tenths)
        half == 5 * Binade(q)
    IN  IF r < 5 THEN q
        ELSE IF r > 5 THEN q + 1
        ELSE IF err > half THEN q + 1
        ELSE IF err < 0 - half THEN q
        ELSE IF q % 2 = 0 THEN q ELSE q + 1

\* line 108: (property_type or "").strip().lower()
normalise_property_type(property_type) ==
    IF ~truthy(property_type) THEN Return(<<>>)
    ELSE IF isinstance_str(property_type) THEN Return(str_lower(str_strip(property_type.s)))
    ELSE Raise("AttributeError", "object has no attribute 'strip'", <<>>)

fetch_average_nightly_rate(address, property_type, bedrooms) ==
    LET p_type == normalise_property_type(property_type)
        base_for_type == tables.base[p_type.value]
        base_rate == base_rate_lookup(base_for_type, bedrooms)
        multiplier == city_multiplier(address)
    IN  IF p_type.tag = "raise" THEN Raise(p_type.exc, p_type.msg, 0)
        ELSE IF p_type.value \notin DOMAIN tables.base \/ DOMAIN base_for_type = {}
        THEN ReturnNone
        ELSE Return(RoundMul(base_rate, multiplier))

(***************************************************************************)
(* calculate_profits and format_whatsapp_message.  Amounts are in pence.   *)
(***************************************************************************)
\* occupancy levels 0.5, 0.7, 1.0 as percentages
OCCUPANCY == <<50, 70, 100>>

IsHalfPenny(num, den) == 2 * (num % den) = den

\* the nearest whole number of pence to num / den pence
RoundPence(num, den) ==
    LET q == num \div den
        r == num % den
    IN  IF 2 * r < den THEN q
        ELSE IF 2 * r > den THEN q + 1
        ELSE IF q % 2 = 0 THEN q ELSE q + 1

\* round(nightly_rate * 30 * occupancy - rent - 600, 2)
profit_at(nightly_rate, occupancy, rent) ==
    RoundPence((nightly_rate * 30 * occupancy - BILLS * 100) * rent.d - 100 * rent.n, rent.d)

calculate_profits_bills_not_deducted(nightly_rate, rent) ==
    [i \in 1..Len(OCCUPANCY) |->
        [key |-> IntToStr(OCCUPANCY[i]),
         profit |-> RoundPence(nightly_rate * 30 * OCCUPANCY[i] * rent.d - 100 * rent.n, rent.d)]]

\* the dict in insertion order: one entry per occupancy, keyed str(int(occupancy * 100))
calculate_profits(nightly_rate, rent) ==
    [i \in 1..Len(OCCUPANCY) |->
        [key |-> IntToStr(OCCUPANCY[i]), profit |-> profit_at(nightly_rate, OCCUPANCY[i], rent)]]

\* profits[key]
DictGet(profits, key) == profits[CHOOSE i \in 1..Len(profits) : profits[i].key = key].profit

\* the message as its template slots, in line order
format_whatsapp_message(address, bedrooms, rent, profits) ==
    [header |-> address \o <<",", " ">> \o IntToStr(bedrooms) \o <<" ", "B", "e", "d">>,
     rent_bills |-> RoundPence(100 * (rent.n + BILLS * rent.d), rent.d),
     lines |-> << [profit |-> DictGet(profits, <<"5","0">>), at |-> 50],
                  [profit |-> DictGet(profits, <<"7","0">>), at |-> 70],
                  [profit |-> DictGet(profits, <<"1","0","0">>), at |-> 100] >>]

\* ', '.join(sorted(BASE_RATE_MAP.keys())), as the list of the sorted keys
RECURSIVE StrLess(_, _)
StrLess(a, b) ==
    IF b = <<>> THEN FALSE
    ELSE IF a = <<>> THEN TRUE
    ELSE IF Head(a) = Head(b) THEN StrLess(Tail(a), Tail(b))
    ELSE IndexIn(Head(a), ascii_lowercase) < IndexIn(Head(b), ascii_lowercase)
RECURSIVE sorted_str(_)
sorted_str(S) ==
    IF S = {} THEN <<>>
    ELSE LET m == CHOOSE x \in S : \A y \in S \ {x} : StrLess(x, y)
         IN  <<m>> \o sorted_str(S \ {m})

(***************************************************************************)
(* calculate_endpoint: responses and the handler's locals                  *)
(***************************************************************************)
NoMessage == [header |-> <<>>, rent_bills |-> 0, lines |-> <<>>]
NoBody == [nightly_rate |-> 0, profits |-> <<>>, message |-> NoMessage]

\* jsonify(response_data), status 200
ResultResponse(response_data) ==
    [status |-> 200, kind |-> "result", keys |-> {"nightly_rate", "profits", "message"},
     error |-> "", detail |-> <<>>, body |-> response_data]

\* jsonify({"error": text}), status
ErrorResponse(status, text, detail) ==
    [status |-> status, kind |-> "error", keys |-> {"error"},
     error |-> text, detail |-> detail, body |-> NoBody]

\* an exception that leaves the view function: no response of the handler's own
UncaughtException(exc) ==
    [status |-> 500, kind |-> "exception", keys |-> {},
     error |-> exc, detail |-> <<>>, body |-> NoBody]

NoResponse == [status |-> 0, kind |-> "none", keys |-> {}, error |-> "", detail |-> <<>>, body |-> NoBody]

\* a request body: "object" (a JSON object with these members), "array" (any
\* non-empty JSON value that is not an object) or "invalid" (not JSON, or a
\* falsy JSON value), for which get_json(silent=True) or {} gives {}
Object(address, price, bedrooms, property_type) ==
    [body |-> "object", address |-> address, price |-> price, bedrooms |-> bedrooms,
     property_type |-> property_type]
EmptyObject == Object(JAbsent, JAbsent, JAbsent, JAbsent)
ArrayBody == [EmptyObject EXCEPT !.body = "array"]
InvalidBody == [EmptyObject EXCEPT !.body = "invalid"]

Idle ==
    [pc |-> "idle", payload |-> EmptyObject, data |-> EmptyObject,
     address |-> <<>>, price_str |-> <<>>, property_type |-> JNull, bedrooms_int |-> 0,
     rent |-> Dec(0, 1), heuristic |-> ReturnNone, legacy_consulted |-> FALSE,
     nightly_rate |-> None(0), response_data |-> NoBody, webhook |-> "none",
     trace |-> <<>>,       \* history: the stages this request went through
     result |-> NoResponse]

Finish(l, response) == [l EXCEPT !.pc = "done", !.result = response]
At(l, stage) == [l EXCEPT !.trace = Append(l.trace, stage)]

\* line 261: data = request.get_json(silent=True, force=True) or {}
receive(payload) ==
    [Idle EXCEPT !.pc = "validate", !.payload = payload,
                 !.data = IF payload.body = "invalid" THEN EmptyObject ELSE payload]

\* lines 264-279
validate(l0) ==
    LET l == At(l0, "validate")
        address == dict_get(l.data.address, JNull)
        price_str == dict_get(l.data.price, JNull)
        bedrooms == dict_get(l.data.bedrooms, JNull)
        property_type == dict_get(l.data.property_type, JStr(house))
        bedrooms_int == py_int(bedrooms)
    IN  IF l.data.body # "object"
        THEN Finish(l, UncaughtException("AttributeError"))
        ELSE IF ~truthy(address) \/ ~isinstance_str(address)
        THEN Finish(l, ErrorResponse(400, "Invalid or missing 'address'.", <<>>))
        ELSE IF ~truthy(price_str) \/ ~isinstance_str(price_str)
        THEN Finish(l, ErrorResponse(400, "Invalid or missing 'price'.", <<>>))
        ELSE IF bedrooms.t = "null"
        THEN Finish(l, ErrorResponse(400, "Missing 'bedrooms'.", <<>>))
        ELSE IF bedrooms_int.tag = "raise" /\ bedrooms_int.exc \in {"ValueError", "TypeError"}
        THEN Finish(l, ErrorResponse(400, "'bedrooms' must be an integer.", <<>>))
        ELSE IF bedrooms_int.tag = "raise"
        THEN Finish(l, UncaughtException(bedrooms_int.exc))
        ELSE [l EXCEPT !.pc = "parse_rent", !.address = address.s, !.price_str = price_str.s,
                       !.property_type = property_type, !.bedrooms_int = bedrooms_int.value]

\* lines 282-285
parse_rent_stage(l0) ==
    LET l == At(l0, "parse_rent")
        rent == parse_rent(l.price_str)
    IN  IF rent.tag = "raise"
        THEN Finish(l, ErrorResponse(400, rent.msg, l.price_str))
        ELSE [l EXCEPT !.pc = "estimate", !.rent = rent.value]

\* line 288
estimate(l0) ==
    LET l == At(l0, "estimate")
        nightly_rate == fetch_average_nightly_rate(l.address, l.property_type, l.bedrooms_int)
    IN  IF nightly_rate.tag = "raise"
        THEN Finish([l EXCEPT !.heuristic = nightly_rate], UncaughtException(nightly_rate.exc))
        ELSE [l EXCEPT !.pc = "fallback", !.heuristic = nightly_rate,
                       !.nightly_rate = IF nightly_rate.tag = "return"
                                        THEN Opt(nightly_rate.value) ELSE None(0)]

\* lines 291-309
fallback(l0) ==
    LET l == At(l0, "fallback")
        prefix == extract_prefix(l.address)
        lookup_key == prefix.v \o <<"-">> \o IntToStr(l.bedrooms_int)
        truthy_prefix == prefix.some /\ prefix.v # <<>>
        nightly_rate ==
            IF l.nightly_rate.some THEN l.nightly_rate
            ELSE IF truthy_prefix /\ lookup_key \in DOMAIN tables.legacy
            THEN Opt(tables.legacy[lookup_key])
            ELSE None(0)
        l1 == [l EXCEPT !.nightly_rate = nightly_rate,
                        !.legacy_consulted = ~l.nightly_rate.some /\ truthy_prefix]
    IN  IF ~nightly_rate.some
        THEN Finish(l1, ErrorResponse(404, "Unable to determine nightly rate for the provided inputs.",
                                      sorted_str(DOMAIN tables.base)))
        ELSE [l1 EXCEPT !.pc = "profits"]

\* lines 312-320
compute_profits(l0) ==
    LET l == At(l0, "profits")
        profits == calculate_profits(l.nightly_rate.v, l.rent)
        message == format_whatsapp_message(l.address, l.bedrooms_int, l.rent, profits)
    IN  [l EXCEPT !.pc = "webhook",
                  !.response_data = [nightly_rate |-> l.nightly_rate.v, profits |-> profits,
                                     message |-> message]]

notify_webhook_failure_propagates(l0, url, post) ==
    LET l == At(l0, "webhook")
    IN  IF url = "unset" THEN [l EXCEPT !.pc = "return", !.webhook = "skipped"]
        ELSE IF post = "failed" THEN Finish([l EXCEPT !.webhook = post], UncaughtException("RequestException"))
        ELSE [l EXCEPT !.pc = "return", !.webhook = post]

\* lines 323-330: post is how requests.post ended, "posted" or "failed" (any
\* exception, which the handler logs and swallows)
notify_webhook(l0, url, post) ==
    LET l == At(l0, "webhook")
    IN  [l EXCEPT !.pc = "return", !.webhook = IF url = "unset" THEN "skipped" ELSE post]

\* line 332
return_result(l0) ==
    LET l == At(l0, "return")
    IN  Finish(l, ResultResponse(l.response_data))

\* the handler run from its first line to its response, with no webhook configured
RECURSIVE run_handler(_)
run_handler(l) ==
    CASE l.pc = "validate" -> run_handler(validate(l))
      [] l.pc = "parse_rent" -> run_handler(parse_rent_stage(l))
      [] l.pc = "estimate" -> run_handler(estimate(l))
      [] l.pc = "fallback" -> run_handler(fallback(l))
      [] l.pc = "profits" -> run_handler(compute_profits(l))
      [] l.pc = "webhook" -> run_handler(notify_webhook(l, "unset", "posted"))
      [] l.pc = "return" -> run_handler(return_result(l))
      [] OTHER -> l

calculate_endpoint(payload) == run_handler(receive(payload)).result

(***************************************************************************)
(* Actions: one per block of calculate_endpoint, for the request in slot i *)
(***************************************************************************)
Slots == 1..NumReq

Receive(i, payload) ==
    /\ h[i].pc = "idle"
    /\ h' = [h EXCEPT ![i] = receive(payload)]
    /\ UNCHANGED <<tables, environ, probe>>

Validate(i) ==
    /\ h[i].pc = "validate"
    /\ h' = [h EXCEPT ![i] = validate(h[i])]
    /\ UNCHANGED <<tables, environ, probe>>

ParseRent(i) ==
    /\ h[i].pc = "parse_rent"
    /\ h' = [h EXCEPT ![i] = parse_rent_stage(h[i])]
    /\ UNCHANGED <<tables, environ, probe>>

EstimateRate(i) ==
    /\ h[i].pc = "estimate"
    /\ h' = [h EXCEPT ![i] = estimate(h[i])]
    /\ UNCHANGED <<tables, environ, probe>>

LegacyFallback_caches_rate(i) ==
    /\ h[i].pc = "fallback"
    /\ h' = [h EXCEPT ![i] = fallback(h[i])]
    /\ tables' = IF h'[i].legacy_consulted /\ h'[i].nightly_rate.some
                 THEN [tables EXCEPT !.base = (str_lower(h[i].property_type.s) :> BedroomRates(
                            h'[i].nightly_rate.v, h'[i].nightly_rate.v, h'[i].nightly_rate.v,
                            h'[i].nightly_rate.v, h'[i].nightly_rate.v)) @@ @]
                 ELSE tables
    /\ UNCHANGED <<environ, probe>>

LegacyFallback(i) ==
    /\ h[i].pc = "fallback"
    /\ h' = [h EXCEPT ![i] = fallback(h[i])]
    /\ UNCHANGED <<tables, environ, probe>>

ComputeProfits(i) ==
    /\ h[i].pc = "profits"
    /\ h' = [h EXCEPT ![i] = compute_profits(h[i])]
    /\ UNCHANGED <<tables, environ, probe>>

NotifyWebhook(i) ==
    /\ h[i].pc = "webhook"
    /\ \E post \in {"posted", "failed"} :
           h' = [h EXCEPT ![i] = notify_webhook(h[i], environ, post)]
    /\ UNCHANGED <<tables, environ, probe>>

ReturnResult(i) ==
    /\ h[i].pc = "return"
    /\ h' = [h EXCEPT ![i] = return_result(h[i])]
    /\ UNCHANGED <<tables, environ, probe>>

\* the response has been sent: the request's locals are discarded
Release(i) ==
    /\ h[i].pc = "done"
    /\ h' = [h EXCEPT ![i] = Idle]
    /\ UNCHANGED <<tables, environ, probe>>

(***************************************************************************)
(* Direct calls of the pure functions                                      *)
(***************************************************************************)
NoCall ==
    [fn |-> "none", address |-> <<>>, property_type |-> JNull, bedrooms |-> 0,
     nightly_rate |-> 0, rent |-> Dec(0, 1), rate |-> ReturnNone, base_rate |-> 0,
     profits |-> <<>>]

call_base_rate_lookup(p_type, bedrooms) ==
    /\ probe.fn = "none"
    /\ probe' = [NoCall EXCEPT !.fn = "base_rate_lookup", !.property_type = JStr(p_type),
                               !.bedrooms = bedrooms,
                               !.base_rate = base_rate_lookup(tables.base[p_type], bedrooms)]
    /\ UNCHANGED <<tables, environ, h>>

call_fetch_average_nightly_rate(address, property_type, bedrooms) ==
    /\ probe.fn = "none"
    /\ probe' = [NoCall EXCEPT !.fn = "fetch_average_nightly_rate", !.address = address,
                               !.property_type = property_type, !.bedrooms = bedrooms,
                               !.rate = fetch_average_nightly_rate(address, property_type, bedrooms)]
    /\ UNCHANGED <<tables, environ, h>>

call_calculate_profits(nightly_rate, rent) ==
    /\ probe.fn = "none"
    /\ probe' = [NoCall EXCEPT !.fn = "calculate_profits", !.nightly_rate = nightly_rate,
                               !.rent = rent,
                               !.profits = calculate_profits(nightly_rate, rent)]
    /\ UNCHANGED <<tables, environ, h>>

\* the call's result goes out of scope
forget_call ==
    /\ probe.fn # "none"
    /\ probe' = NoCall
    /\ UNCHANGED <<tables, environ, h>>

(***************************************************************************)
(* Inputs                                                                  *)
(***************************************************************************)
A_LIVERPOOL_L4 == <<"4","5"," ","S","m","i","t","h"," ","S","t",","," ","L","i","v","e","r","p","o","o","l"," ","L","4"," ","3","X","Y">>
A_HIGH_ST_L4 == <<"1","2","3"," ","H","i","g","h"," ","S","t",","," ","L","4"," ","2","A","B">>
A_NO_POSTCODE == <<"N","o"," ","P","o","s","t","c","o","d","e"," ","H","e","r","e">>
A_LONDON_LOWER == <<"1"," ","l","o","n","d","o","n"," ","r","o","a","d">>
A_BOTH_CITIES == <<"L","i","v","e","r","p","o","o","l"," ","S","t",","," ","L","o","n","d","o","n"," ","L","6">>
P_1200_PCM == <<"GBP","1",",","2","0","0"," ","p","c","m">>
P_1200 == <<"1","2","0","0">>
P_900_PCM == <<"GBP","9","0","0"," ","p","c","m">>
P_1000 == <<"1","0","0","0">>
P_POUND == <<"GBP">>
P_TWO_POINTS == <<"1",".","2",".","3">>
yurt == <<"y","u","r","t">>

\* every string over alphabet of length at most n
RECURSIVE Strings(_, _)
Strings(alphabet, n) ==
    IF n = 0 THEN {<<>>}
    ELSE LET shorter == Strings(alphabet, n - 1)
         IN  shorter \cup {Append(s, c) : s \in shorter, c \in alphabet}

\* every concatenation of at most n tokens
RECURSIVE Concatenations(_, _)
Concatenations(tokens, n) ==
    IF n = 0 THEN {<<>>}
    ELSE LET shorter == Concatenations(tokens, n - 1)
         IN  shorter \cup {s \o t : s \in shorter, t \in tokens}

PriceAlphabet == {"GBP", "1", "9", ".", ",", " "}
PriceStrings == Strings(PriceAlphabet, MaxPriceLen)

AddressTokens ==
    { <<"l","o","n","d","o","n">>, <<"L","I","V","E","R","P","O","O","L">>, <<"L","o","n">>,
      <<"D","O","N">>, <<"L","4">>, <<" ">>, <<"L","e","e","d","s">>,
      <<"S","h","e","f","f","i","e","l","d">> }
EnumAddresses == Concatenations(AddressTokens, MaxAddrTokens)

BedroomCounts == (0 - 2)..MaxBedrooms

PropertyTypeValues ==
    { JAbsent, JNull, JStr(house), JStr(<<" ","H","o","u","s","e"," ">>),
      JStr(<<"S","T","U","D","I","O">>), JStr(apartment), JStr(bungalow), JStr(yurt),
      JStr(<<>>), JInt(0), JInt(5) }

FetchPropertyTypes ==
    { JNull, JStr(house), JStr(<<" ","H","o","u","s","e"," ">>), JStr(<<"S","T","U","D","I","O">>),
      JStr(yurt), JInt(5) }

AddressValues ==
    { JAbsent, JNull, JStr(<<>>), JInt(7), JStr(A_LIVERPOOL_L4), JStr(A_HIGH_ST_L4),
      JStr(A_NO_POSTCODE), JStr(A_LONDON_LOWER), JStr(A_BOTH_CITIES) }

PriceValues ==
    { JAbsent, JStr(<<>>), JInt(1200), JStr(P_1200_PCM), JStr(P_1000), JStr(P_POUND),
      JStr(P_TWO_POINTS), JStr(P_900_PCM) }

BedroomValues ==
    { JAbsent, JNull, JInt(0 - 1), JInt(0), JInt(3), JInt(4), JInt(MaxBedrooms),
      JStr(<<"3">>), JStr(<<" ","4"," ">>), JStr(<<"a","b","c">>), JStr(<<"3",".","0">>),
      JFloat(37), JBool(TRUE), JList(0), JInf, JNaN }

Payloads ==
    {Object(a, p, b, t) : a \in AddressValues, p \in PriceValues, b \in BedroomValues,
                          t \in {JAbsent, JNull, JStr(<<"S","T","U","D","I","O">>), JStr(yurt), JInt(5)}}
    \cup {Object(JStr(A_HIGH_ST_L4), JStr(P_1200), JInt(3), t) : t \in PropertyTypeValues}
    \cup {Object(JStr(A_HIGH_ST_L4), JStr(p), JInt(3), JAbsent) : p \in PriceStrings \ {<<>>}}
    \cup {Object(JStr(a), JStr(P_1200), JInt(b), t) :
              a \in EnumAddresses \ {<<>>}, b \in {2, 3}, t \in {JStr(house), JStr(yurt)}}
    \cup {ArrayBody, InvalidBody}

ConcurrentPayloads ==
    { Object(JStr(A_LIVERPOOL_L4), JStr(P_900_PCM), JInt(3), JStr(house)),
      Object(JStr(A_HIGH_ST_L4), JStr(P_1200), JStr(<<"3">>), JStr(yurt)),
      Object(JStr(A_NO_POSTCODE), JStr(P_1200_PCM), JInt(3), JStr(yurt)),
      Object(JStr(A_HIGH_ST_L4), JStr(P_POUND), JInt(3), JAbsent),
      Object(JStr(A_HIGH_ST_L4), JStr(P_1200), JInt(3), JInt(5)),
      EmptyObject }

NightlyRates == {0 - 1, 0, 1, 3, 45, 100, 132, 136, 272}
Rents ==
    { Dec(0, 1), Dec(1, 100), Dec(129, 1000), Dec(749001, 1000), Dec(900, 1), Dec(1000, 1),
      Dec(1200, 1), Dec(120099, 100), Dec(1349999, 1000), Dec(999999, 10) }

(***************************************************************************)
(* Specifications                                                          *)
(***************************************************************************)
Init ==
    /\ tables = InitTables
    /\ environ \in {"unset", "set"}
    /\ h = [i \in Slots |-> Idle]
    /\ probe = NoCall

\* one request at a time, over the wide set of payloads
Next ==
    \/ \E payload \in Payloads : Receive(1, payload)
    \/ Validate(1)
    \/ ParseRent(1)
    \/ EstimateRate(1)
    \/ LegacyFallback(1)
    \/ ComputeProfits(1)
    \/ NotifyWebhook(1)
    \/ ReturnResult(1)
    \/ Release(1)

Spec == Init /\ [][Next]_vars

\* NumReq requests in flight at once, interleaved block by block
NextConcurrent ==
    \E i \in Slots :
        \/ \E payload \in ConcurrentPayloads : Receive(i, payload)
        \/ Validate(i)
        \/ ParseRent(i)
        \/ EstimateRate(i)
        \/ LegacyFallback(i)
        \/ ComputeProfits(i)
        \/ NotifyWebhook(i)
        \/ ReturnResult(i)
        \/ Release(i)

SpecConcurrent == Init /\ [][NextConcurrent]_vars

\* the pure functions called directly
NextPure ==
    \/ \E p_type \in DOMAIN tables.base, bedrooms \in BedroomCounts :
           call_base_rate_lookup(p_type, bedrooms)
    \/ \E address \in EnumAddresses, property_type \in FetchPropertyTypes, bedrooms \in BedroomCounts :
           call_fetch_average_nightly_rate(address, property_type, bedrooms)
    \/ \E nightly_rate \in NightlyRates, rent \in Rents :
           call_calculate_profits(nightly_rate, rent)
    \/ forget_call

InitPure == Init /\ environ = "unset"

SpecPure == InitPure /\ [][NextPure]_vars

(***************************************************************************)
(* Properties                                                              *)
(***************************************************************************)
Done(i) == h[i].pc = "done"
Went(i, stage) == stage \in Range(h[i].trace)
IsSuccess(r) == r.kind = "result" /\ r.status = 200
IsClientError(r) == r.kind = "error" /\ r.status = 400
IsNotFound(r) == r.kind = "error" /\ r.status = 404

MSG_ADDRESS == "Invalid or missing 'address'."
MSG_PRICE == "Invalid or missing 'price'."
MSG_BEDROOMS == {"Missing 'bedrooms'.", "'bedrooms' must be an integer."}
MSG_NO_NUMBER == "Could not parse rent from price string"
MSG_BAD_NUMBER == "Invalid numeric value in price string"

NonEmptyString(v) == v.t = "str" /\ v.s # <<>>

\* a value Python's int() turns into an integer
IntegerCoercible(v) ==
    \/ v.t \in {"int", "bool", "float"}
    \/ v.t = "str" /\ int_of_str(v.s).tag = "return"

\* what is left of a price once everything but digits and points is deleted
Kept(s) == SelectSeq(s, IsNumericChar)
Points(s) == Cardinality({k \in 1..Len(s) : s[k] = "."})
DecimalLiteral(s) == Points(s) <= 1 /\ Len(s) > Points(s)
Parsable(s) == DecimalLiteral(Kept(s))

\* the rents and rates in play produce no exact half-penny: round(x, 2) is
\* then decided by the decimal value alone
NoHalfPennyTie ==
    /\ \A i \in Slots : \A k \in 1..Len(OCCUPANCY) :
           h[i].nightly_rate.some =>
               ~IsHalfPenny((h[i].nightly_rate.v * 30 * OCCUPANCY[k] - BILLS * 100) * h[i].rent.d
                            - 100 * h[i].rent.n, h[i].rent.d)
    /\ \A k \in 1..Len(OCCUPANCY) :
           ~IsHalfPenny((probe.nightly_rate * 30 * OCCUPANCY[k] - BILLS * 100) * probe.rent.d
                        - 100 * probe.rent.n, probe.rent.d)

\* C1: every finished request reports the outcome of the earliest failing
\* stage, in the order address, price, bedrooms, rent parsing, rate estimation:
\* a bad address gives the address client error whatever else the payload
\* holds, else a bad price the price client error, else missing or
\* non-integer-coercible bedrooms the bedrooms client error, else an unparsable
\* price a client error, and not-found is reached only when all of these passed.
C1_EarliestFailingStage ==
    \A i \in Slots :
        Done(i) /\ h[i].payload.body # "array" =>
            LET d == h[i].data
                r == h[i].result
                address_ok == NonEmptyString(d.address)
                price_ok == NonEmptyString(d.price)
                bedrooms_ok == d.bedrooms.t \notin {"absent", "null"} /\ IntegerCoercible(d.bedrooms)
            IN  /\ ~address_ok => IsClientError(r) /\ r.error = MSG_ADDRESS
                /\ address_ok /\ ~price_ok => IsClientError(r) /\ r.error = MSG_PRICE
                /\ address_ok /\ price_ok /\ ~bedrooms_ok => IsClientError(r) /\ r.error \in MSG_BEDROOMS
                /\ address_ok /\ price_ok /\ bedrooms_ok /\ ~Parsable(d.price.s) =>
                       IsClientError(r) /\ r.error \in {MSG_NO_NUMBER, MSG_BAD_NUMBER}
                /\ IsNotFound(r) => address_ok /\ price_ok /\ bedrooms_ok /\ Parsable(d.price.s)

\* C2: every finished request ends in exactly one of the success result with
\* keys nightly_rate, profits, message, a client-error {error} response or the
\* not-found {error} response; none ends in an uncaught exception.
C2_StructuredOutcome ==
    \A i \in Slots :
        Done(i) =>
            LET r == h[i].result
            IN  \/ IsSuccess(r) /\ r.keys = {"nightly_rate", "profits", "message"}
                \/ IsClientError(r) /\ r.keys = {"error"}
                \/ IsNotFound(r) /\ r.keys = {"error"}

\* C3: a request that passed validation and rent parsing gets the heuristic
\* rate, without the legacy table being consulted, when its canonicalized
\* property type is in the rate table; otherwise it gets the legacy rate of
\* "<prefix>-<bedrooms>" for the first postcode-like prefix of the address;
\* it ends in not-found exactly when both yield absence.
C3_TwoLinkChain ==
    \A i \in Slots :
        Done(i) /\ Went(i, "estimate") =>
            LET l == h[i]
                r == l.result
                p_type == IF l.property_type.t = "str"
                          THEN str_lower(str_strip(l.property_type.s)) ELSE <<>>
                recognised == p_type \in DOMAIN BASE_RATE_MAP
                prefix == extract_prefix(l.address)
                key == prefix.v \o <<"-">> \o IntToStr(l.bedrooms_int)
                in_legacy == prefix.some /\ key \in DOMAIN LEGACY_NIGHTLY_RATE_MAP
            IN  /\ recognised =>
                       /\ IsSuccess(r)
                       /\ l.heuristic.tag = "return"
                       /\ r.body.nightly_rate = l.heuristic.value
                       /\ ~l.legacy_consulted
                /\ ~recognised /\ in_legacy =>
                       IsSuccess(r) /\ r.body.nightly_rate = LEGACY_NIGHTLY_RATE_MAP[key]
                /\ IsNotFound(r) <=> ~recognised /\ ~in_legacy

\* C4: once the result has been computed the caller gets it as the response,
\* the same whether the webhook URL is unconfigured, the POST succeeds or the
\* POST fails; the webhook is attempted only after the result has been
\* computed and never on a client-error or not-found outcome.
C4_WebhookNeverChangesResponse ==
    \A i \in Slots :
        /\ Done(i) /\ Went(i, "profits") =>
               /\ IsSuccess(h[i].result)
               /\ h[i].result = calculate_endpoint(h[i].payload)
        /\ h[i].webhook # "none" => Went(i, "profits") /\ h[i].response_data # NoBody
        /\ Done(i) /\ ~IsSuccess(h[i].result) => h[i].webhook = "none" /\ ~Went(i, "webhook")

\* a request answered with its result although the webhook POST failed
C4_Witness ==
    \E i \in Slots : Done(i) /\ IsSuccess(h[i].result) /\ h[i].webhook = "failed"

\* the table entry C5 names: that of the largest key <= bedrooms, or of the
\* smallest key when there is none
NearestLowerEntry(p_type, bedrooms) ==
    LET entries == BASE_RATE_MAP[p_type]
        lower == {k \in DOMAIN entries : k <= bedrooms}
    IN  IF lower # {}
        THEN entries[CHOOSE k \in lower : \A j \in lower : j <= k]
        ELSE entries[CHOOSE k \in DOMAIN entries : \A j \in DOMAIN entries : k <= j]

\* the indices of the city keys that occur in the uppercased address
CityMatches(address) ==
    {j \in 1..Len(CITY_MULTIPLIERS) : Contains(str_upper(address), CITY_MULTIPLIERS[j].city)}

Canonical(property_type) ==
    IF property_type.t = "str" THEN str_lower(str_strip(property_type.s)) ELSE <<>>

C6_FirstCityMultiplier ==
    probe.fn = "fetch_average_nightly_rate"
    /\ Canonical(probe.property_type) \in DOMAIN BASE_RATE_MAP =>
        LET p_type == Canonical(probe.property_type)
            base == NearestLowerEntry(p_type, probe.bedrooms)
            matches == CityMatches(probe.address)
            first == CHOOSE j \in matches : \A k \in matches : j <= k
            tenths == IF matches = {} THEN 10 ELSE CITY_MULTIPLIERS[first].factor
            rate == probe.rate.value
        IN  /\ probe.rate.tag = "return"
            /\ rate = RoundMul(base, tenths)
            /\ 10 * rate - base * tenths \in (0 - 5)..5
            /\ rate = fetch_average_nightly_rate(str_lower(probe.address), probe.property_type,
                                                 probe.bedrooms).value
            /\ 1 \in matches /\ p_type = house /\ probe.bedrooms = 2 => rate = 136
            /\ 1 \in matches => 10 * rate - 16 * base \in (0 - 5)..5
            /\ matches = {} => rate = base

\* an address holding both LONDON and LIVERPOOL, in mixed case, priced at 1.6
C6_Witness ==
    /\ probe.fn = "fetch_average_nightly_rate"
    /\ {1, 3} \subseteq CityMatches(probe.address)
    /\ probe.address # str_upper(probe.address)
    /\ probe.rate.tag = "return"
    /\ probe.rate.value = 136

\* C7: calculate_profits returns exactly the keys "50", "70", "100", inserted
\* in that order; the value for key p is nightly_rate * 30 * p/100 - rent - 600
\* rounded to 2 decimal places (the nearest penny); a negative profit is
\* returned as it is: nightly_rate 100 and rent 1000 give -100.00, 500.00 and
\* 1400.00.
C7_ProfitFormula ==
    probe.fn = "calculate_profits" =>
        LET profits == probe.profits
            rent == probe.rent
            \* the exact profit at p percent, in units of 1/rent.d pence
            exact(p) == (probe.nightly_rate * 30 * p - 60000) * rent.d - 100 * rent.n
            within_half_penny(x, y) == 2 * x <= rent.d /\ 2 * y <= rent.d
        IN  /\ Len(profits) = 3
            /\ profits[1].key = <<"5", "0">>
            /\ profits[2].key = <<"7", "0">>
            /\ profits[3].key = <<"1", "0", "0">>
            /\ \A k \in 1..3 :
                   LET p == <<50, 70, 100>>[k]
                   IN  /\ within_half_penny(profits[k].profit * rent.d - exact(p),
                                            exact(p) - profits[k].profit * rent.d)
                       /\ exact(p) < 0 => profits[k].profit <= 0
                       /\ rent.d \in {1, 10, 100} => profits[k].profit * rent.d = exact(p)
            /\ probe.nightly_rate = 100 /\ rent = [n |-> 1000, d |-> 1] =>
                   /\ profits[1].profit = 0 - 10000
                   /\ profits[2].profit = 50000
                   /\ profits[3].profit = 140000

\* nightly_rate 100 and rent 1000: a loss of 100.00 at 50 percent
C7_Witness ==
    /\ probe.fn = "calculate_profits"
    /\ probe.nightly_rate = 100
    /\ probe.rent = [n |-> 1000, d |-> 1]
    /\ probe.profits[1].profit < 0

\* C8: parse_rent deletes every character that is not a digit or a point and
\* keeps the rest in order; an empty remainder is a parse error, a remainder
\* that is no decimal literal (two points, a lone point) is a parse error, and
\* otherwise the rent is the remainder's decimal value ("GBP1,200 pcm" and
\* "1200" both give 1200); in the handler either parse error becomes a client
\* error and never a success result.
C8_ParseRent ==
    \A i \in Slots :
        Went(i, "parse_rent") =>
            LET l == h[i]
                kept == Kept(l.price_str)
                point == CHOOSE k \in 1..Len(kept) : kept[k] = "."
                fraction == IF Points(kept) = 0 THEN 0 ELSE Len(kept) - point
                failed == Done(i) /\ IsClientError(l.result) /\ ~Went(i, "estimate")
                parsed == Went(i, "estimate") \/ l.pc = "estimate"
            IN  /\ kept = <<>> => failed /\ l.result.error = MSG_NO_NUMBER
                /\ kept # <<>> /\ ~DecimalLiteral(kept) => failed /\ l.result.error = MSG_BAD_NUMBER
                /\ DecimalLiteral(kept) =>
                       /\ parsed
                       /\ l.rent.n * Pow10(fraction) = DigitsToInt(SelectSeq(kept, IsDigit)) * l.rent.d
                /\ l.price_str \in {P_1200_PCM, P_1200} =>
                       parsed /\ l.rent = [n |-> 1200, d |-> 1]
                /\ l.price_str = P_POUND => failed
                /\ ~Parsable(l.price_str) => ~IsSuccess(l.result) /\ l.pc = "done"

\* a price with a currency sign and two points, refused as no decimal literal
C8_Witness ==
    \E i \in Slots :
        /\ Done(i)
        /\ Points(h[i].price_str) >= 2
        /\ Kept(h[i].price_str) # h[i].price_str
        /\ h[i].result.error = MSG_BAD_NUMBER

\* C9: no step of any request writes the rate table, the city multiplier table
\* or the legacy rate table, and requests share nothing else: under every
\* interleaving each request's outcome is the one it has when handled alone.
C9_RequestsIndependent ==
    /\ tables = InitTables
    /\ \A i \in Slots : Done(i) => h[i].result = calculate_endpoint(h[i].payload)

\* a request served from the legacy table while another is in flight
C9_Witness ==
    \E i, j \in Slots :
        /\ i # j
        /\ Done(i) /\ IsSuccess(h[i].result) /\ h[i].legacy_consulted
        /\ h[j].pc \in {"estimate", "fallback", "profits"}

\* C10: in every success result nightly_rate is a strictly positive integer,
\* from the heuristic and from the legacy table alike, for any bedrooms value,
\* zero and negative included; a resolved rate is never zero or negative.
C10_RatePositive ==
    \A i \in Slots :
        /\ h[i].heuristic.tag = "return" => h[i].heuristic.value \in Nat \ {0}
        /\ h[i].nightly_rate.some => h[i].nightly_rate.v \in Nat \ {0}
        /\ IsSuccess(h[i].result) => h[i].result.body.nightly_rate \in Nat \ {0}

\* a success for a negative bedrooms value
C10_Witness ==
    \E i \in Slots :
        Done(i) /\ IsSuccess(h[i].result) /\ h[i].bedrooms_int < 0 /\ h[i].heuristic.tag = "return"

=============================================================================
